---- MODULE Spec2Model ----
(***************************************************************************)
(* Model of src/src/generate_changelog.py (class ChangelogGenerator).      *)
(*                                                                         *)
(* Text is modelled character by character: a Python str is a sequence of  *)
(* one-character strings, so that the regular expressions, the strip()    *)
(* calls and the f-strings of the source are computed, not assumed.        *)
(***************************************************************************)
EXTENDS Integers, Sequences, FiniteSets, TLC

VARIABLES
    self,             \* the ChangelogGenerator's configuration fields
    files,            \* the changelog files on disk: path -> content | NoFile
    pc,               \* position of the running operation
    description,      \* PR body returned by get_pr_description
    pr_title,         \* PR title returned by get_pr_description
    version,          \* result of extract_target_version
    client_changes,   \* result of extract_changelog_section(.., "Client-Facing Changes")
    internal_changes, \* result of extract_changelog_section(.., "Internal Changes")
    related_issues,   \* result of extract_related_issues
    updated_files,    \* run's list of paths returned by update_changelog_file
    exit_status,      \* process exit status: "running", 0 or 1
    git,              \* what the commit collaborator was asked to do
    dirs,             \* the directories below and including changelog_dir
    calls,            \* history of update_changelog_file calls (ghost)
    input             \* the parts the current input text was built from (ghost)

vars == <<self, files, pc, description, pr_title, version, client_changes,
          internal_changes, related_issues, updated_files, exit_status, git,
          dirs, calls, input>>

(***************************************************************************)
(* Characters and str helpers                                              *)
(***************************************************************************)
NL == "\n"

\* the grave accent U+0060, which a TLA+ string literal cannot contain
Backtick == "GRAVE"

WS == {" ", "\n", "\t"}

Digits == {"0", "1", "2", "3", "4", "5", "6", "7", "8", "9"}

UpperChars == <<"A", "B", "C", "D", "E", "F", "G", "H", "I", "J", "K", "L", "M",
                "N", "O", "P", "Q", "R", "S", "T", "U", "V", "W", "X", "Y", "Z">>

LowerChars == <<"a", "b", "c", "d", "e", "f", "g", "h", "i", "j", "k", "l", "m",
                "n", "o", "p", "q", "r", "s", "t", "u", "v", "w", "x", "y", "z">>

Uppers == {UpperChars[i] : i \in 1..26}

Lowers == {LowerChars[i] : i \in 1..26}

\* [a-zA-Z0-9.] of the prerelease suffix
PreChars == Uppers \cup Lowers \cup Digits \cup {"."}

Min(S) == CHOOSE m \in S : \A n \in S : m <= n

\* s[i..] begins with the literal lit
IsPrefixAt(s, i, lit) ==
    /\ i >= 1
    /\ i + Len(lit) - 1 <= Len(s)
    /\ \A k \in 1..Len(lit) : s[i + k - 1] = lit[k]

\* the end (exclusive) of the longest run of characters of cls starting at i:
\* what a greedy cls* consumes
SpanEnd(s, i, cls) ==
    IF i > Len(s) THEN i
    ELSE CHOOSE j \in i..(Len(s) + 1) :
            /\ \A k \in i..(j - 1) : s[k] \in cls
            /\ j = Len(s) + 1 \/ s[j] \notin cls

\* str.rstrip()
RStrip(s) ==
    IF \A k \in 1..Len(s) : s[k] \in WS THEN <<>>
    ELSE SubSeq(s, 1, CHOOSE j \in 1..Len(s) :
                        /\ s[j] \notin WS
                        /\ \A k \in (j + 1)..Len(s) : s[k] \in WS)

\* str.lstrip()
LStrip(s) == SubSeq(s, SpanEnd(s, 1, WS), Len(s))

\* str.strip()
Strip(s) == LStrip(RStrip(s))

\* str.lower(), one character
LowerChar(c) ==
    IF c \in Uppers THEN LowerChars[CHOOSE i \in 1..26 : UpperChars[i] = c] ELSE c

\* str.lower()
Lower(s) == [k \in 1..Len(s) |-> LowerChar(s[k])]

\* str.split("\n")
RECURSIVE SplitLines(_)
SplitLines(s) ==
    IF \A k \in 1..Len(s) : s[k] # NL THEN <<s>>
    ELSE LET j == Min({k \in 1..Len(s) : s[k] = NL})
         IN  <<SubSeq(s, 1, j - 1)>> \o SplitLines(SubSeq(s, j + 1, Len(s)))

\* ", ".join(xs)
RECURSIVE Join(_)
Join(xs) ==
    IF xs = <<>> THEN <<>>
    ELSE IF Len(xs) = 1 THEN xs[1]
    ELSE xs[1] \o <<",", " ">> \o Join(Tail(xs))

(***************************************************************************)
(* extract_target_version                                                  *)
(***************************************************************************)
TargetVersionHeading ==
    <<"#", "#", " ", "T", "a", "r", "g", "e", "t", " ",
      "V", "e", "r", "s", "i", "o", "n">>

notarget == <<"n", "o", "t", "a", "r", "g", "e", "t">>

\* One attempt of version_pattern at position i:
\*   ## Target Version\s+[`\[]?([vV]?\d+\.\d+\.\d+(?:-[a-zA-Z0-9.]+)?)[`\]]?
\* Every quantifier is followed by a character outside its class, so the
\* greedy choice is the only one that can succeed.
VersionMatchAt(s, i) ==
    LET a  == i + Len(TargetVersionHeading)
        b  == SpanEnd(s, a, WS)
        g  == IF b <= Len(s) /\ s[b] \in {Backtick, "["} THEN b + 1 ELSE b
        d0 == IF g <= Len(s) /\ s[g] \in {"v", "V"} THEN g + 1 ELSE g
        d1 == SpanEnd(s, d0, Digits)
        d2 == SpanEnd(s, d1 + 1, Digits)
        d3 == SpanEnd(s, d2 + 1, Digits)
        p  == IF d3 <= Len(s) /\ s[d3] = "-" THEN SpanEnd(s, d3 + 1, PreChars) ELSE d3
        e  == IF p > d3 + 1 THEN p ELSE d3
        ok == /\ IsPrefixAt(s, i, TargetVersionHeading)
              /\ b > a
              /\ d1 > d0 /\ d1 <= Len(s) /\ s[d1] = "."
              /\ d2 > d1 + 1 /\ d2 <= Len(s) /\ s[d2] = "."
              /\ d3 > d2 + 1
    IN  [ok |-> ok, group1 |-> IF ok THEN SubSeq(s, g, e - 1) ELSE <<>>]

\* version.startswith("v")
StartsWithV(v) == Len(v) >= 1 /\ v[1] = "v"

extract_target_version(d) ==
    LET starts == {i \in 1..Len(d) : VersionMatchAt(d, i).ok}
    IN  IF starts # {}
        THEN LET v == VersionMatchAt(d, Min(starts)).group1
             IN  IF ~StartsWithV(v) THEN <<"v">> \o v ELSE v
        ELSE notarget

(***************************************************************************)
(* extract_changelog_section                                               *)
(***************************************************************************)
ClientSectionName == <<"C", "l", "i", "e", "n", "t", "-", "F", "a", "c", "i", "n", "g", " ", "C", "h", "a", "n", "g", "e", "s">>

InternalSectionName == <<"I", "n", "t", "e", "r", "n", "a", "l", " ", "C", "h", "a", "n", "g", "e", "s">>

H3 == <<"#", "#", "#", " ">>

Divider == <<"-", "-", "-">>

\* the lookahead (?=\s+T|...|\Z) at position e, for the terminators terms
LookaheadAt(s, e, terms) ==
    \/ e = Len(s) + 1
    \/ LET w == SpanEnd(s, e, WS)
       IN  w > e /\ \E t \in terms : IsPrefixAt(s, w, t)

\* One attempt at position i of   <heading>\s+(.+?)(?=\s+T|...|\Z)   with
\* re.DOTALL.  \s+ is greedy: it takes the whole run of white space, and
\* gives one character back only when the run reaches the end of the text,
\* where .+? would otherwise have nothing to take.  .+? is lazy: the group
\* ends at the first position, at least one character on, where the
\* lookahead holds.
BlockMatchAt(s, i, heading, terms) ==
    LET a  == i + Len(heading)
        b  == SpanEnd(s, a, WS)
        g  == IF b <= Len(s) THEN b ELSE b - 1
        ok == /\ IsPrefixAt(s, i, heading)
              /\ b > a
              /\ g > a
        e  == Min({k \in (g + 1)..(Len(s) + 1) : LookaheadAt(s, k, terms)})
    IN  [ok |-> ok, group1 |-> IF ok THEN SubSeq(s, g, e - 1) ELSE <<>>]

\* re.search of the block pattern: the leftmost position where it matches
BlockSearch(s, heading, terms) ==
    LET starts == {i \in 1..Len(s) : BlockMatchAt(s, i, heading, terms).ok}
    IN  IF starts = {} THEN [ok |-> FALSE, group1 |-> <<>>]
        ELSE BlockMatchAt(s, Min(starts), heading, terms)

\* One attempt at position i of   \*\*([^:]+)\*\*:\s*\[?([^\]].+)   on a line.
\* group 1 cannot hold a colon, so the "**:" that closes it ends at the first
\* colon after the opening "**".  After the colon the matcher tries, in this
\* order: all the white space and the "[" (when there is one); all the white
\* space; then one white space character less at a time.  Group 2 starts at
\* the first of these places g where l[g] is not "]" and one more character
\* follows, and runs to the end of the line.
BulletMatchAt(l, i) ==
    LET colons == {k \in (i + 2)..Len(l) : l[k] = ":"}
        c  == Min(colons)
        m  == SpanEnd(l, c + 1, WS)
        tries == (IF m <= Len(l) /\ l[m] = "[" THEN <<m + 1>> ELSE <<>>)
                 \o <<m>>
                 \o [k \in 1..(m - c - 1) |-> m - k]
        valid(g) == g + 1 <= Len(l) /\ l[g] # "]"
        good == {k \in 1..Len(tries) : valid(tries[k])}
        ok == /\ IsPrefixAt(l, i, <<"*", "*">>)
              /\ colons # {}
              /\ c >= i + 5
              /\ l[c - 2] = "*" /\ l[c - 1] = "*"
              /\ good # {}
    IN  [ok |-> ok,
         group1 |-> IF ok THEN SubSeq(l, i + 2, c - 3) ELSE <<>>,
         group2 |-> IF ok THEN SubSeq(l, tries[Min(good)], Len(l)) ELSE <<>>]

\* re.search of the bullet pattern on a line
BulletSearch(l) ==
    LET starts == {i \in 1..Len(l) : BulletMatchAt(l, i).ok}
    IN  IF starts = {} THEN [ok |-> FALSE, group1 |-> <<>>, group2 |-> <<>>]
        ELSE BulletMatchAt(l, Min(starts))

\* re.sub(r'\]$', '', text)
SubClosingBracket(text) ==
    IF Len(text) >= 1 /\ text[Len(text)] = "]"
    THEN SubSeq(text, 1, Len(text) - 1) ELSE text

NoneMarker == <<"[", "n", "o", "n", "e", "]">>

HtmlComment == <<"<", "!", "-", "-">>

\* the body of the loop over the lines of a section: the items one line adds
LineItems(line) ==
    LET l == Strip(line)
        bullet_match == BulletSearch(l)
        category == Strip(bullet_match.group1)
        text == Strip(SubClosingBracket(Strip(bullet_match.group2)))
    IN  IF l = <<>> \/ IsPrefixAt(l, 1, HtmlComment) THEN <<>>
        ELSE IF ~bullet_match.ok THEN <<>>
        ELSE IF text # <<>> /\ ~(Lower(text) = NoneMarker)
             THEN <<[category |-> category, text |-> text]>>
        ELSE <<>>

RECURSIVE ItemsOfLines(_)
ItemsOfLines(lines) ==
    IF lines = <<>> THEN <<>>
    ELSE LineItems(Head(lines)) \o ItemsOfLines(Tail(lines))

extract_changelog_section(d, section_name) ==
    LET match == BlockSearch(d, H3 \o section_name, {Divider, <<"#", "#", "#">>})
    IN  IF ~match.ok THEN <<>>
        ELSE ItemsOfLines(SplitLines(Strip(match.group1)))

(***************************************************************************)
(* extract_related_issues                                                  *)
(***************************************************************************)
RelatedIssuesHeading == <<"#", "#", " ", "R", "e", "l", "a", "t", "e", "d", " ", "I", "s", "s", "u", "e", "s">>

\* re.findall(r'#(\d+)', line) from position i on
RECURSIVE IssueMatches(_, _)
IssueMatches(l, i) ==
    IF i > Len(l) THEN <<>>
    ELSE IF l[i] = "#" /\ i + 1 <= Len(l) /\ l[i + 1] \in Digits
         THEN LET e == SpanEnd(l, i + 1, Digits)
              IN  <<SubSeq(l, i + 1, e - 1)>> \o IssueMatches(l, e)
    ELSE IssueMatches(l, i + 1)

\* re.findall(r'([A-Z]+-\d+)', line) from position i on
RECURSIVE JiraMatches(_, _)
JiraMatches(l, i) ==
    IF i > Len(l) THEN <<>>
    ELSE LET u == SpanEnd(l, i, Uppers)
         IN  IF u > i /\ u + 1 <= Len(l) /\ l[u] = "-" /\ l[u + 1] \in Digits
             THEN LET e == SpanEnd(l, u + 1, Digits)
                  IN  <<SubSeq(l, i, e - 1)>> \o JiraMatches(l, e)
             ELSE JiraMatches(l, i + 1)

RECURSIVE IssuesOfLines(_)
IssuesOfLines(lines) ==
    IF lines = <<>> THEN <<>>
    ELSE LET line == Head(lines)
         IN  (IF Strip(line) = <<>> THEN <<>>
              ELSE IssueMatches(line, 1) \o JiraMatches(line, 1))
             \o IssuesOfLines(Tail(lines))

extract_related_issues(d) ==
    LET match == BlockSearch(d, RelatedIssuesHeading, {Divider, <<"#", "#">>})
    IN  IF ~match.ok THEN <<>>
        ELSE IssuesOfLines(SplitLines(Strip(match.group1)))

(***************************************************************************)
(* update_changelog_file                                                   *)
(***************************************************************************)
\* self.today: datetime.now().strftime(self.date_format)
today == <<"2", "0", "2", "6", "-", "1", "1", "-", "0", "2">>

single_filename == <<"C", "H", "A", "N", "G", "E", "L", "O", "G", ".", "m", "d">>

get_version_with_date(v) ==
    IF self.include_date_in_version THEN v \o <<" ", "(">> \o today \o <<")">>
    ELSE v

\* the destination: <<sub-directory, file name>> below changelog_dir
FilePath(raw_version, section_type) ==
    IF self.single_file THEN <<"", single_filename>>
    ELSE IF self.unified_changelog THEN <<"", raw_version \o <<".", "m", "d">>>>
    ELSE <<IF section_type = "client" THEN self.client_subdir
           ELSE self.internal_subdir,
           raw_version \o <<".", "m", "d">>>>

\* what is written to a file that does not exist yet
FileHeader(raw_version, section_type) ==
    LET version_with_date == get_version_with_date(raw_version)
    IN  IF self.single_file THEN <<"#", " ", "C", "h", "a", "n", "g", "e", "l", "o", "g", "\n", "\n">>
        ELSE IF self.unified_changelog
             THEN <<"#", " ">> \o version_with_date \o <<" ", "C", "h", "a", "n", "g", "e", "l", "o", "g", "\n", "\n">>
        ELSE IF section_type = "client"
             THEN <<"#", " ">> \o version_with_date \o <<NL, NL>>
        ELSE <<"#", " ">> \o version_with_date \o <<" ", "I", "n", "t", "e", "r", "n", "a", "l", " ", "C", "h", "a", "n", "g", "e", "l", "o", "g", "\n", "\n">>

\* GroupByCategory that adds a change to the group before it only when that
\* group is the last one, and opens a new group otherwise
RECURSIVE GroupByCategoryAdjacent(_, _)
GroupByCategoryAdjacent(changes, acc) ==
    IF changes = <<>> THEN acc
    ELSE LET change == Head(changes)
         IN  GroupByCategoryAdjacent(Tail(changes),
                IF acc = <<>> \/ acc[Len(acc)].category # change.category
                THEN Append(acc, [category |-> change.category, items |-> <<change.text>>])
                ELSE [acc EXCEPT ![Len(acc)].items = Append(@, change.text)])

\* changes_by_category: the dict, as the sequence of its entries in
\* insertion order
RECURSIVE GroupByCategory(_, _)
GroupByCategory(changes, acc) ==
    IF changes = <<>> THEN acc
    ELSE LET change == Head(changes)
             at == {k \in 1..Len(acc) : acc[k].category = change.category}
         IN  GroupByCategory(Tail(changes),
                IF at = {}
                THEN Append(acc, [category |-> change.category, items |-> <<change.text>>])
                ELSE [acc EXCEPT ![Min(at)].items = Append(@, change.text)])

\* re.search(version_pattern, content) with
\*   version_pattern = "## " + re.escape(raw_version) + r"\s*(?:\([^)]+\))?"
\* \s* and the optional group both match the empty string, so the pattern
\* matches wherever the literal "## <raw_version>" occurs in the content.
VersionHeadingFound(content, raw_version) ==
    \E i \in 1..Len(content) : IsPrefixAt(content, i, <<"#", "#", " ">> \o raw_version)

RECURSIVE BulletLines(_)
BulletLines(items) ==
    IF items = <<>> THEN <<>>
    ELSE <<"-", " ">> \o Head(items) \o <<NL>> \o BulletLines(Tail(items))

RECURSIVE CategoryBlocks(_)
CategoryBlocks(groups) ==
    IF groups = <<>> THEN <<>>
    ELSE LET heading_prefix == IF self.single_file THEN <<"#", "#", "#">> ELSE <<"#", "#">>
         IN  <<NL>> \o heading_prefix \o <<" ">> \o Head(groups).category \o <<NL, NL>>
             \o BulletLines(Head(groups).items)
             \o CategoryBlocks(Tail(groups))

PRHeading(pr_number, title) == <<"P", "R", " ", "#">> \o pr_number \o <<":", " ">> \o title \o <<NL>>

RelatedIssuesLabel == <<"*", "*", "R", "e", "l", "a", "t", "e", "d", " ", "I", "s", "s", "u", "e", "s", ":", "*", "*", " ">>

\* HeadingPart with the PR heading left out only for client-type blocks of
\* the separate layout
HeadingPartClientOnlySeparate(content, raw_version, section_type, pr_number, title) ==
    LET version_header == <<"#", "#", " ">> \o get_version_with_date(raw_version)
    IN  IF self.single_file
        THEN (IF ~VersionHeadingFound(content, raw_version)
              THEN <<NL, NL>> \o version_header \o <<NL>> ELSE <<>>)
             \o <<NL, NL, "#", "#", "#", " ">> \o PRHeading(pr_number, title)
        ELSE IF section_type = "client" /\ ~self.unified_changelog THEN <<>>
        ELSE <<NL, NL, "#", "#", " ">> \o PRHeading(pr_number, title)

\* lines 217-231: the version heading (single-file mode, when the content
\* read has none for this version) and the PR heading
HeadingPart(content, raw_version, section_type, pr_number, title) ==
    LET version_header == <<"#", "#", " ">> \o get_version_with_date(raw_version)
    IN  IF self.single_file
        THEN (IF ~VersionHeadingFound(content, raw_version)
              THEN <<NL, NL>> \o version_header \o <<NL>> ELSE <<>>)
             \o (IF section_type = "client" THEN <<>>
                 ELSE <<NL, NL, "#", "#", "#", " ">> \o PRHeading(pr_number, title))
        ELSE IF section_type = "client" THEN <<>>
        ELSE <<NL, NL, "#", "#", " ">> \o PRHeading(pr_number, title)

\* RelatedIssuesPart that forgets the single-file case
RelatedIssuesPartNoSingle(section_type, issues) ==
    IF section_type # "client" /\ issues # <<>>
    THEN <<NL>> \o RelatedIssuesLabel \o Join(issues) \o <<NL>>
    ELSE <<>>

\* lines 233-236: the "Related Issues" line
RelatedIssuesPart(section_type, issues) ==
    IF (section_type # "client" \/ self.single_file) /\ issues # <<>>
    THEN <<NL>> \o RelatedIssuesLabel \o Join(issues) \o <<NL>>
    ELSE <<>>

\* NewContent that starts from nothing instead of the content read
NewContentDroppingPrior(content, raw_version, section_type, changes, pr_number, title, issues) ==
    HeadingPart(content, raw_version, section_type, pr_number, title)
    \o RelatedIssuesPart(section_type, issues)
    \o CategoryBlocks(GroupByCategory(changes, <<>>))

\* the content written back, from the content read
NewContent(content, raw_version, section_type, changes, pr_number, title, issues) ==
    RStrip(content)
    \o HeadingPart(content, raw_version, section_type, pr_number, title)
    \o RelatedIssuesPart(section_type, issues)
    \o CategoryBlocks(GroupByCategory(changes, <<>>))

\* update_changelog_file that writes the header whether or not the file exists
update_changelog_file_header_always(fs, raw_version, section_type, changes, pr_number, title, issues) ==
    LET file_path == FilePath(raw_version, section_type)
        content == (IF file_path \in DOMAIN fs THEN fs[file_path] ELSE <<>>)
                   \o FileHeader(raw_version, section_type)
    IN  (file_path :> NewContent(content, raw_version, section_type, changes,
                                 pr_number, title, issues)) @@ fs

\* the file system after the call
update_changelog_file(fs, raw_version, section_type, changes, pr_number, title, issues) ==
    LET file_path == FilePath(raw_version, section_type)
        created == IF file_path \in DOMAIN fs THEN fs
                   ELSE fs @@ (file_path :> FileHeader(raw_version, section_type))
        content == created[file_path]
    IN  [created EXCEPT ![file_path] =
            NewContent(content, raw_version, section_type, changes, pr_number, title, issues)]

(***************************************************************************)
(* Values shared by the specifications                                     *)
(***************************************************************************)
\* Python's None and a str, told apart
None == [is_none |-> TRUE, str |-> <<>>]

Str(x) == [is_none |-> FALSE, str |-> x]

\* "not x" for x a str or None
Falsy(x) == x.is_none \/ x.str = <<>>

\* f"{x}"
Format(x) == IF x.is_none THEN <<"N", "o", "n", "e">> ELSE x.str

Item(c, t) == [category |-> c, text |-> t]

\* the configuration fields that stay as they are in every specification
BaseConfig ==
    [github_token |-> "token", repo_name |-> "owner/repo", pr_number |-> <<"7">>,
     should_commit_changes |-> FALSE, unified_changelog |-> FALSE,
     unified_format |-> "client", single_file |-> FALSE,
     include_date_in_version |-> TRUE,
     client_subdir |-> "client", internal_subdir |-> "internal"]

NoGit == [invoked |-> 0, outcome |-> "", files |-> <<>>, raised |-> FALSE]

\* the record kept of one update_changelog_file call
CallRecord(raw_version, section_type, changes, pr_number, title, issues) ==
    LET file_path == FilePath(raw_version, section_type)
        existed == file_path \in DOMAIN files
    IN  [file_path |-> file_path, raw_version |-> raw_version,
         section_type |-> section_type, changes |-> changes,
         pr_number |-> pr_number, pr_title |-> title, issues |-> issues,
         existed |-> existed,
         pre |-> IF existed THEN files[file_path]
                 ELSE FileHeader(raw_version, section_type),
         post |-> update_changelog_file(files, raw_version, section_type, changes,
                                        pr_number, title, issues)[file_path]]

\* one call of update_changelog_file on the files on disk
DoUpdate(raw_version, section_type, changes, pr_number, title, issues) ==
    /\ files' = update_changelog_file(files, raw_version, section_type, changes,
                                      pr_number, title, issues)
    /\ calls' = Append(calls, CallRecord(raw_version, section_type, changes,
                                         pr_number, title, issues))

(***************************************************************************)
(* SpecMerge: update_changelog_file called any number of times, with any   *)
(* arguments, under each layout                                            *)
(***************************************************************************)
MaxCalls == 2

MergeConfigs ==
    {[BaseConfig EXCEPT !.single_file = l[1], !.unified_changelog = l[2],
                        !.include_date_in_version = d] :
        l \in {<<FALSE, FALSE>>, <<FALSE, TRUE>>, <<TRUE, FALSE>>}, d \in BOOLEAN}

MergeVersions == {<<"v", "1", ".", "2", ".", "3">>, <<"v", "1", ".", "2", ".", "3", "0">>}

\* run only passes non-empty lists of changes (lines 345, 359, 367); in the
\* second list the first category comes after the second in the alphabet
\* and recurs after it, once with a text it already had
MergeChanges ==
    {<<Item(<<"A">>, <<"x", "x">>)>>,
     <<Item(<<"B">>, <<"x", "x">>), Item(<<"A">>, <<"y">>), Item(<<"B">>, <<"z">>),
       Item(<<"B">>, <<"x", "x">>)>>}

\* the pull requests merged: PR 7 names no issue, PR 8 names two
MergePRs ==
    {[pr_number |-> <<"7">>, pr_title |-> <<"T", "i">>, issues |-> <<>>],
     [pr_number |-> <<"8">>, pr_title |-> <<"T", "i">>,
      issues |-> <<<<"1", "2">>, <<"A", "B", "-", "3">>>>]}

MergeInit ==
    /\ self \in MergeConfigs
    /\ files = <<>>
    /\ dirs = {"changelog", "client", "internal"}
    /\ calls = <<>>
    /\ pc = "merge"
    /\ description = None /\ pr_title = None
    /\ version = <<>> /\ client_changes = <<>> /\ internal_changes = <<>>
    /\ related_issues = <<>> /\ updated_files = <<>>
    /\ exit_status = "running" /\ git = NoGit
    /\ input = <<>>

UpdateChangelogFile ==
    /\ pc = "merge"
    /\ Len(calls) < MaxCalls
    /\ \E raw_version \in MergeVersions, section_type \in {"client", "internal"},
          changes \in MergeChanges, pr \in MergePRs :
            DoUpdate(raw_version, section_type, changes, pr.pr_number, pr.pr_title,
                     pr.issues)
    /\ UNCHANGED <<self, pc, description, pr_title, version, client_changes,
                   internal_changes, related_issues, updated_files, exit_status,
                   git, dirs, input>>

MergeNext == UpdateChangelogFile

SpecMerge == MergeInit /\ [][MergeNext]_vars

(***************************************************************************)
(* Properties of update_changelog_file (SpecMerge)                         *)
(***************************************************************************)
\* the calls made on the file p, in order
CallsOn(p) == SelectSeq(calls, LAMBDA c : c.file_path = p)

\* the block a call appended: what its result holds after the trimmed
\* content it read
BlockOf(c) == SubSeq(c.post, Len(RStrip(c.pre)) + 1, Len(c.post))

BlockLines(c) == SplitLines(BlockOf(c))

\* the call that led to the current state
LastCall == calls[Len(calls)]

\* the blocks of the calls cs appended one after the other to acc, each
\* after trimming the trailing white space of what precedes it
RECURSIVE Rebuild(_, _)
Rebuild(acc, cs) ==
    IF cs = <<>> THEN acc
    ELSE Rebuild(RStrip(acc) \o BlockOf(Head(cs)), Tail(cs))

SameArguments(c, d) ==
    /\ c.file_path = d.file_path /\ c.raw_version = d.raw_version
    /\ c.section_type = d.section_type /\ c.changes = d.changes
    /\ c.pr_number = d.pr_number /\ c.issues = d.issues

\* C1: update_changelog_file is append-only.  Every call writes back the
\* content it read (the header, for a file it created) with the trailing
\* white space trimmed, followed by a non-empty new block; so each file is
\* its header followed by the blocks of all the calls made on it, unchanged
\* and in call order, and a call repeated with the same arguments adds a
\* second block.
C1_AppendOnly ==
    /\ \A k \in 1..Len(calls) :
          /\ IsPrefixAt(calls[k].post, 1, RStrip(calls[k].pre))
          /\ BlockOf(calls[k]) # <<>>
    /\ \A p \in DOMAIN files :
          LET cs == CallsOn(p)
          IN  /\ cs # <<>>
              /\ ~cs[1].existed
              /\ files[p] = Rebuild(FileHeader(cs[1].raw_version, cs[1].section_type), cs)

\* the same change set merged twice into one file
C1_Witness ==
    \E j, k \in 1..Len(calls) :
        /\ j < k
        /\ SameArguments(calls[j], calls[k])
        /\ files[calls[k].file_path] = calls[k].post

StartsWithTitleMark(line) == IsPrefixAt(line, 1, <<"#", " ">>)

\* C2: the header is written exactly once per file.  In every file the first
\* line is the header line of the layout (as the call that created the file
\* wrote it) and no other line of the file is a "# " title line.
C2_HeaderOnce ==
    \A p \in DOMAIN files :
        LET cs == CallsOn(p)
            header == RStrip(FileHeader(cs[1].raw_version, cs[1].section_type))
            lines == SplitLines(files[p])
        IN  /\ lines[1] = header
            /\ {k \in 1..Len(lines) : lines[k] = header \/ StartsWithTitleMark(lines[k])} = {1}

\* a file that a second call found present
C2_Witness ==
    \E k \in 1..Len(calls) :
        calls[k].existed /\ files[calls[k].file_path] = calls[k].post

\* a version heading line of version v: "## v" or "## v (<date>)"
IsVersionHeading(line, v) ==
    \/ line = <<"#", "#", " ">> \o v
    \/ /\ IsPrefixAt(line, 1, <<"#", "#", " ">> \o v \o <<" ", "(">>)
       /\ line[Len(line)] = ")"

VersionHeadings(content, v) ==
    LET lines == SplitLines(content)
    IN  {k \in 1..Len(lines) : IsVersionHeading(lines[k], v)}

\* C3: in single-file mode every version that was the target of a call has
\* exactly one version heading line in the file.
C3_OneHeadingPerVersion ==
    self.single_file =>
        \A k \in 1..Len(calls) :
            Cardinality(VersionHeadings(files[calls[k].file_path], calls[k].raw_version)) = 1

PRHeadingLine(c, marks) ==
    marks \o <<" ">> \o RStrip(PRHeading(c.pr_number, c.pr_title))

\* the lines of the block of c that are PR heading lines of c
PRHeadingLines(c) ==
    LET lines == BlockLines(c)
    IN  {k \in 1..Len(lines) :
            lines[k] \in {PRHeadingLine(c, <<"#", "#">>), PRHeadingLine(c, <<"#", "#", "#">>)}}

\* C4 as stated: in the state after a call, its block has a PR heading line unless it is a client-type
\* block of the separate layout.
C4_PRHeadingExceptSeparateClient ==
    calls # <<>> =>
        ((PRHeadingLines(LastCall) # {})
            <=> ~(LastCall.section_type = "client"
                  /\ ~self.single_file /\ ~self.unified_changelog))

\* C4, amended: in the state after a call, its block has a PR heading line exactly when its section type
\* is not client, in every layout.  It is then the only one, "### PR #n: t"
\* in single-file layout and "## PR #n: t" otherwise, and the first line of
\* the block that is neither blank nor the version heading.
C4_PRHeadingIffNotClient ==
    calls # <<>> =>
        LET c == LastCall
            lines == BlockLines(c)
            first == Min({i \in 1..Len(lines) :
                            /\ lines[i] # <<>>
                            /\ ~IsVersionHeading(lines[i], c.raw_version)})
            marks == IF self.single_file THEN <<"#", "#", "#">> ELSE <<"#", "#">>
        IN  IF c.section_type = "client" THEN PRHeadingLines(c) = {}
            ELSE /\ PRHeadingLines(c) = {first}
                 /\ lines[first] = PRHeadingLine(c, marks)

\* two PRs of one version merged into the single file as internal-type
\* blocks; the second finds the version heading present
C4_Witness ==
    /\ self.single_file
    /\ \E j, k \in 1..Len(calls) :
          /\ j < k
          /\ calls[j].raw_version = calls[k].raw_version
          /\ calls[j].pr_number # calls[k].pr_number
          /\ calls[j].section_type = "internal" /\ calls[k].section_type = "internal"
          /\ PRHeadingLines(calls[j]) # {} /\ PRHeadingLines(calls[k]) # {}

RelatedIssuesLines(c) ==
    LET lines == BlockLines(c)
    IN  {k \in 1..Len(lines) : IsPrefixAt(lines[k], 1, RStrip(RelatedIssuesLabel))}

\* C5: in the state after a call, its block has a "**Related Issues:**" line, listing all the related
\* issues in order, exactly when the issues are not empty and the section
\* type is internal or the layout is single-file; otherwise it has none.
C5_RelatedIssuesLine ==
    calls # <<>> =>
        LET c == LastCall
            lines == BlockLines(c)
        IN  IF c.issues # <<>> /\ (c.section_type = "internal" \/ self.single_file)
            THEN /\ Cardinality(RelatedIssuesLines(c)) = 1
                 /\ \A i \in RelatedIssuesLines(c) :
                        lines[i] = RelatedIssuesLabel \o Join(c.issues)
            ELSE RelatedIssuesLines(c) = {}

\* a client-type block of the single file with issues, an internal-type
\* block with issues, and a block without the line although issues were given
C5_Witness ==
    /\ \E k \in 1..Len(calls) :
          /\ calls[k].issues # <<>> /\ calls[k].section_type = "client"
          /\ RelatedIssuesLines(calls[k]) # {}
    /\ \E k \in 1..Len(calls) :
          /\ calls[k].issues # <<>> /\ calls[k].section_type = "internal"
          /\ RelatedIssuesLines(calls[k]) # {}

\* the distinct categories of changes, in the order of their first occurrence
RECURSIVE FirstSeen(_, _)
FirstSeen(changes, seen) ==
    IF changes = <<>> THEN seen
    ELSE FirstSeen(Tail(changes),
                   IF \E k \in 1..Len(seen) : seen[k] = Head(changes).category
                   THEN seen ELSE Append(seen, Head(changes).category))

IsBullet(line) == IsPrefixAt(line, 1, <<"-", " ">>)

\* the sub-heading and bullet lines of the block of c, in order: the lines
\* that start with the sub-heading marks, the PR heading aside, and the
\* lines that start with "- "
CategoryLines(c) ==
    LET marks == IF self.single_file THEN <<"#", "#", "#">> ELSE <<"#", "#">>
    IN  SelectSeq(BlockLines(c),
                  LAMBDA line : \/ IsBullet(line)
                                \/ /\ IsPrefixAt(line, 1, marks \o <<" ">>)
                                   /\ line # PRHeadingLine(c, marks))

\* the lines the categories cats of changes are to give: for each category
\* its sub-heading, then one bullet per item of it, in input order
RECURSIVE ExpectedCategoryLines(_, _, _)
ExpectedCategoryLines(cats, changes, marks) ==
    IF cats = <<>> THEN <<>>
    ELSE LET of_cat == SelectSeq(changes, LAMBDA ch : ch.category = Head(cats))
         IN  <<marks \o <<" ">> \o Head(cats)>>
             \o [k \in 1..Len(of_cat) |-> <<"-", " ">> \o of_cat[k].text]
             \o ExpectedCategoryLines(Tail(cats), changes, marks)

\* C12: in the state after a call, the block it appended has exactly one
\* sub-heading per distinct category of its items, in the order of each
\* category's first occurrence, each followed by one bullet per item of that
\* category in input order; the block has as many bullets as the call had
\* items.
C12_GroupedByCategory ==
    calls # <<>> =>
        LET c == LastCall
            marks == IF self.single_file THEN <<"#", "#", "#">> ELSE <<"#", "#">>
        IN  /\ CategoryLines(c)
                  = ExpectedCategoryLines(FirstSeen(c.changes, <<>>), c.changes, marks)
            /\ Len(SelectSeq(BlockLines(c), IsBullet)) = Len(c.changes)

\* a call whose items have a category that recurs after another one, with a
\* text it already had, and whose first category is not the first in the
\* alphabet
C12_Witness ==
    /\ calls # <<>>
    /\ LET ch == LastCall.changes
       IN  /\ Len(ch) = 4
           /\ ch[1].category = ch[3].category /\ ch[1].category # ch[2].category
           /\ ch[1] = ch[4]
           /\ ch[1].category = <<"B">> /\ ch[2].category = <<"A">>
    /\ files[LastCall.file_path] = LastCall.post

\* the last line of content that is a second-level heading: the heading of
\* the section the end of the content lies in (<<>> when there is none)
LastSectionHeading(content) ==
    LET lines == SplitLines(content)
        hs == {k \in 1..Len(lines) : IsPrefixAt(lines[k], 1, <<"#", "#", " ">>)}
    IN  IF hs = {} THEN <<>>
        ELSE lines[CHOOSE k \in hs : \A j \in hs : j <= k]

\* C13: in single-file mode, in the state after a call, the block it
\* appended lies in the section of the version it targets: the last version
\* heading of the file, the one the block at its end lies under, is the
\* heading of that version.  Earlier blocks do not move (C1), so this puts
\* every block in the section of its own version.
C13_BlockInOwnVersionSection ==
    (self.single_file /\ calls # <<>>) =>
        IsVersionHeading(LastSectionHeading(LastCall.post), LastCall.raw_version)

(***************************************************************************)
(* SpecRun: the process, from the construction of the generator to its     *)
(* exit, run MaxRuns times on the same working directory                   *)
(***************************************************************************)
MaxRuns == 2

\* the texts a fetched pull request is made of
ClientSection ==
    <<"#", "#", "#", " ", "C", "l", "i", "e", "n", "t", "-", "F", "a", "c",
      "i", "n", "g", " ", "C", "h", "a", "n", "g", "e", "s", "\n", "<", "!",
      "-", "-", " ", "c", " ", "-", "-", ">", "\n", "-", " ", "*", "*", "A",
      "d", "d", "e", "d", "*", "*", ":", " ", "[", "x", "x", "]", "\n", "-",
      " ", "*", "*", "F", "i", "x", "e", "d", "*", "*", ":", " ", "y", " ",
      "z", "\n", "\n">>

InternalSection ==
    <<"#", "#", "#", " ", "I", "n", "t", "e", "r", "n", "a", "l", " ", "C",
      "h", "a", "n", "g", "e", "s", "\n", "-", " ", "*", "*", "A", "d", "d",
      "e", "d", "*", "*", ":", " ", "q", "q", "\n", "\n">>

EmptyInternalSection ==
    <<"#", "#", "#", " ", "I", "n", "t", "e", "r", "n", "a", "l", " ", "C",
      "h", "a", "n", "g", "e", "s", "\n", "-", " ", "*", "*", "A", "d", "d",
      "e", "d", "*", "*", ":", " ", "\n", "\n">>

TargetVersionSection ==
    <<"-", "-", "-", "\n", "\n", "#", "#", " ", "T", "a", "r", "g", "e", "t",
      " ", "V", "e", "r", "s", "i", "o", "n", "\n", "v", "1", ".", "2", ".",
      "3", "\n", "\n">>

RelatedIssuesSection ==
    <<"-", "-", "-", "\n", "\n", "#", "#", " ", "R", "e", "l", "a", "t", "e",
      "d", " ", "I", "s", "s", "u", "e", "s", "\n", "#", "1", "2", "\n", "A",
      "B", "-", "3", "\n">>

SummaryText ==
    <<"#", "#", " ", "S", "u", "m", "m", "a", "r", "y", "\n", "h", "e", "l",
      "l", "o", "\n", "\n">>

\* the pull request bodies the data source returns
Bodies ==
    {Str(ClientSection \o InternalSection \o TargetVersionSection \o RelatedIssuesSection),
     Str(ClientSection \o TargetVersionSection),
     Str(InternalSection \o RelatedIssuesSection),
     Str(SummaryText \o EmptyInternalSection \o TargetVersionSection),
     Str(SummaryText),
     Str(<<>>),
     None}

RunTitle == Str(<<"T", "i">>)

\* layout and commit settings; unified_format matters only when one file
\* takes both kinds of changes
LayoutConfigs ==
    {[BaseConfig EXCEPT !.single_file = l[1], !.unified_changelog = l[2],
                        !.unified_format = l[3], !.should_commit_changes = c] :
        l \in {<<FALSE, FALSE, "client">>,
               <<FALSE, TRUE, "client">>, <<FALSE, TRUE, "internal">>,
               <<FALSE, TRUE, "other">>,
               <<TRUE, FALSE, "client">>, <<TRUE, FALSE, "internal">>},
        c \in BOOLEAN}

\* the separate layout with CLIENT_SUBDIR and INTERNAL_SUBDIR set to the
\* same directory name
SharedSubdirConfigs ==
    {[BaseConfig EXCEPT !.client_subdir = "log", !.internal_subdir = "log",
                        !.should_commit_changes = c] : c \in BOOLEAN}

RunConfigs == LayoutConfigs \cup SharedSubdirConfigs

\* GITHUB_TOKEN, REPO_NAME and PR_NUMBER as the environment gives them;
\* "" and <<>> stand for a variable that is not set
Identities ==
    {[github_token |-> "token", repo_name |-> "owner/repo", pr_number |-> <<"7">>],
     [github_token |-> "token", repo_name |-> "owner/repo", pr_number |-> <<"8">>],
     [github_token |-> "", repo_name |-> "owner/repo", pr_number |-> <<"7">>],
     [github_token |-> "token", repo_name |-> "owner/repo", pr_number |-> <<>>]}

WithIdentity(config, id) ==
    [config EXCEPT !.github_token = id.github_token, !.repo_name = id.repo_name,
                   !.pr_number = id.pr_number]

\* the outcomes of the git commands of commit_changes
GitOutcomes == {"nothing_to_commit", "commit_failed", "push_failed", "pushed", "exception"}

\* the state of a process that has just been started
FreshProcess ==
    /\ pc = "new"
    /\ description = None /\ pr_title = None
    /\ version = <<>> /\ client_changes = <<>> /\ internal_changes = <<>>
    /\ related_issues = <<>> /\ updated_files = <<>>
    /\ exit_status = "running" /\ git = NoGit
    /\ calls = <<>>

RunInit ==
    /\ \E config \in RunConfigs, id \in Identities : self = WithIdentity(config, id)
    /\ files = <<>>
    /\ dirs = {}
    /\ input = [runs |-> 1, files0 |-> <<>>, fetch |-> "none"]
    /\ FreshProcess

\* _validate_env: does the process go on
ValidEnv == self.github_token # "" /\ self.repo_name # "" /\ self.pr_number # <<>>

\* __init__ (lines 26-57); Github(..).get_repo(..) asks the network and may raise
Construct ==
    /\ pc = "new"
    /\ \/ /\ ~ValidEnv
          /\ pc' = "exited" /\ exit_status' = 1
       \/ /\ ValidEnv
          /\ \/ pc' = "run" /\ UNCHANGED exit_status
             \/ pc' = "exited" /\ exit_status' = 1
    /\ UNCHANGED <<self, files, description, pr_title, version, client_changes,
                   internal_changes, related_issues, updated_files, git, dirs,
                   calls, input>>

\* setup_directories (lines 69-79), the first statement of run
SetupDirectories ==
    /\ pc = "run"
    /\ dirs' = dirs \cup {"changelog"}
                    \cup (IF ~self.unified_changelog /\ ~self.single_file
                          THEN {self.client_subdir, self.internal_subdir} ELSE {})
    /\ pc' = "fetch"
    /\ UNCHANGED <<self, files, description, pr_title, version, client_changes,
                   internal_changes, related_issues, updated_files, exit_status,
                   git, calls, input>>

\* get_pr_description (lines 81-89): the body and title of the pull request,
\* or (None, None) when get_pull raises
GetPrDescription ==
    /\ pc = "fetch"
    /\ \/ /\ description' = None /\ pr_title' = None
          /\ input' = [input EXCEPT !.fetch = "raised"]
       \/ \E body \in Bodies :
            /\ description' = body /\ pr_title' = RunTitle
            /\ input' = [input EXCEPT !.fetch = "returned"]
    /\ pc' = "fetched"
    /\ UNCHANGED <<self, files, version, client_changes, internal_changes,
                   related_issues, updated_files, exit_status, git, dirs, calls>>

\* the test of the description that logs the error and returns, so that
\* the process ends with status 0
ExitNoDescriptionStatusZero ==
    /\ pc = "fetched"
    /\ Falsy(description)
    /\ pc' = "exited" /\ exit_status' = 0
    /\ UNCHANGED <<self, files, description, pr_title, version, client_changes,
                   internal_changes, related_issues, updated_files, git, dirs,
                   calls, input>>

\* run, lines 320-322: "if not description: sys.exit(1)"
ExitNoDescription ==
    /\ pc = "fetched"
    /\ Falsy(description)
    /\ pc' = "exited" /\ exit_status' = 1
    /\ UNCHANGED <<self, files, description, pr_title, version, client_changes,
                   internal_changes, related_issues, updated_files, git, dirs,
                   calls, input>>

\* run, lines 324-333: the three extractors
Extract ==
    /\ pc = "fetched"
    /\ ~Falsy(description)
    /\ version' = extract_target_version(description.str)
    /\ client_changes' = extract_changelog_section(description.str, ClientSectionName)
    /\ internal_changes' = extract_changelog_section(description.str, InternalSectionName)
    /\ related_issues' = extract_related_issues(description.str)
    /\ updated_files' = <<>>
    /\ pc' = "merge"
    /\ UNCHANGED <<self, files, description, pr_title, exit_status, git, dirs,
                   calls, input>>

\* run, lines 335-356: one file for both kinds of changes
MergeUnified ==
    /\ pc = "merge"
    /\ self.unified_changelog \/ self.single_file
    /\ LET all_changes == client_changes \o internal_changes
           format_type == IF self.unified_format \notin {"client", "internal"}
                          THEN "client" ELSE self.unified_format
       IN  IF all_changes # <<>>
           THEN /\ DoUpdate(version, format_type, all_changes, self.pr_number,
                            Format(pr_title), related_issues)
                /\ updated_files' = Append(updated_files, FilePath(version, format_type))
           ELSE UNCHANGED <<files, calls, updated_files>>
    /\ pc' = "commit"
    /\ UNCHANGED <<self, description, pr_title, version, client_changes,
                   internal_changes, related_issues, exit_status, git, dirs, input>>

\* run, lines 359-365: the client file of the separate layout
MergeClient ==
    /\ pc = "merge"
    /\ ~(self.unified_changelog \/ self.single_file)
    /\ IF client_changes # <<>>
       THEN /\ DoUpdate(version, "client", client_changes, self.pr_number,
                        Format(pr_title), related_issues)
            /\ updated_files' = Append(updated_files, FilePath(version, "client"))
       ELSE UNCHANGED <<files, calls, updated_files>>
    /\ pc' = "merge_internal"
    /\ UNCHANGED <<self, description, pr_title, version, client_changes,
                   internal_changes, related_issues, exit_status, git, dirs, input>>

\* run, lines 367-373: the internal file of the separate layout
MergeInternal ==
    /\ pc = "merge_internal"
    /\ IF internal_changes # <<>>
       THEN /\ DoUpdate(version, "internal", internal_changes, self.pr_number,
                        Format(pr_title), related_issues)
            /\ updated_files' = Append(updated_files, FilePath(version, "internal"))
       ELSE UNCHANGED <<files, calls, updated_files>>
    /\ pc' = "commit"
    /\ UNCHANGED <<self, description, pr_title, version, client_changes,
                   internal_changes, related_issues, exit_status, git, dirs, input>>

\* commit_changes without its try block: the exception of a git command
\* leaves it
commit_changes_uncaught(files_to_commit, outcome) ==
    IF ~self.should_commit_changes \/ files_to_commit = <<>>
    THEN [invoked |-> git.invoked + 1, outcome |-> "skipped", files |-> <<>>,
          raised |-> FALSE]
    ELSE [invoked |-> git.invoked + 1, outcome |-> outcome, files |-> files_to_commit,
          raised |-> outcome = "exception"]

\* commit_changes (lines 250-311) for one outcome of its git commands: what
\* it ran and whether an exception leaves it.  The try block catches every
\* Exception; the non-zero exit codes of os.system are only logged.
commit_changes(files_to_commit, outcome) ==
    IF ~self.should_commit_changes \/ files_to_commit = <<>>
    THEN [invoked |-> git.invoked + 1, outcome |-> "skipped", files |-> <<>>,
          raised |-> FALSE]
    ELSE [invoked |-> git.invoked + 1, outcome |-> outcome, files |-> files_to_commit,
          raised |-> FALSE]

\* run, lines 375-377: "if self.should_commit_changes: self.commit_changes(..)"
CommitChanges ==
    /\ pc = "commit"
    /\ self.should_commit_changes
    /\ \E outcome \in GitOutcomes : git' = commit_changes(updated_files, outcome)
    /\ pc' = "committed"
    /\ UNCHANGED <<self, files, description, pr_title, version, client_changes,
                   internal_changes, related_issues, updated_files, exit_status,
                   dirs, calls, input>>

\* run, line 379, and the end of the process: status 0, or 1 when an
\* exception left commit_changes
Finish ==
    /\ \/ pc = "commit" /\ ~self.should_commit_changes
       \/ pc = "committed"
    /\ pc' = "exited"
    /\ exit_status' = IF git.raised THEN 1 ELSE 0
    /\ UNCHANGED <<self, files, description, pr_title, version, client_changes,
                   internal_changes, related_issues, updated_files, git, dirs,
                   calls, input>>

\* the workflow starts the process again, for the same or another pull
\* request, on the working directory the last process left
StartAgain ==
    /\ pc = "exited"
    /\ input.runs < MaxRuns
    /\ \E id \in Identities : self' = WithIdentity(self, id)
    /\ input' = [runs |-> input.runs + 1, files0 |-> files, fetch |-> "none"]
    /\ pc' = "new"
    /\ description' = None /\ pr_title' = None
    /\ version' = <<>> /\ client_changes' = <<>> /\ internal_changes' = <<>>
    /\ related_issues' = <<>> /\ updated_files' = <<>>
    /\ exit_status' = "running" /\ git' = NoGit
    /\ calls' = <<>>
    /\ UNCHANGED <<files, dirs>>

RunNext ==
    \/ Construct
    \/ SetupDirectories
    \/ GetPrDescription
    \/ ExitNoDescription
    \/ Extract
    \/ MergeUnified
    \/ MergeClient
    \/ MergeInternal
    \/ CommitChanges
    \/ Finish
    \/ StartAgain

SpecRun == RunInit /\ [][RunNext]_vars

(***************************************************************************)
(* Properties of run (SpecRun)                                             *)
(***************************************************************************)
\* C6: when get_pr_description yields no description (None, because
\* get_pull raised or the pull request has no body), run ends at once with
\* a non-zero status: from there the process is only ever about to exit or
\* has exited with status 1, no extractor and no merger was called, the
\* files are those the process found, and commit_changes was not invoked.
C6_FetchFailureIsFatal ==
    (input.fetch # "none" /\ description.is_none) =>
        /\ pc \in {"fetched", "exited"}
        /\ pc = "exited" => exit_status = 1
        /\ version = <<>> /\ client_changes = <<>> /\ internal_changes = <<>>
        /\ related_issues = <<>>
        /\ calls = <<>> /\ updated_files = <<>>
        /\ files = input.files0
        /\ git.invoked = 0

\* a process that found changelog files of an earlier run and exited
\* because get_pull raised
C6_Witness ==
    /\ pc = "exited" /\ exit_status = 1
    /\ input.fetch = "raised"
    /\ input.files0 # <<>>
    /\ files = input.files0

\* C7: with the identity configuration present and a text returned by the
\* fetch, whatever the text, the process exits with status 0.
C7_EveryTextSucceeds ==
    (pc = "exited" /\ ValidEnv /\ input.fetch = "returned" /\ ~description.is_none)
        => exit_status = 0

\* C8: commit failures are not fatal.  commit_changes is invoked at most
\* once in a process, only when committing is enabled and only when run has
\* made its merger calls; no exception leaves it, the process then exits
\* with status 0 whatever git did, and from the invocation on the process
\* writes no changelog file.
C8_CommitNotFatal ==
    /\ [](/\ git.invoked <= 1
          /\ git.invoked = 1 =>
                /\ self.should_commit_changes
                /\ pc \in {"committed", "exited"}
                /\ ~git.raised
                /\ git.files \in {<<>>, updated_files}
                /\ pc = "exited" => exit_status = 0)
    /\ [][/\ git'.invoked > git.invoked => pc = "commit" /\ files' = files
          /\ (git.invoked = 1 /\ pc' # "new") => files' = files /\ calls' = calls]_vars

\* a process that wrote a changelog file, whose commit, push or git command
\* failed, and that exited with status 0
C8_Witness ==
    /\ pc = "exited" /\ exit_status = 0
    /\ git.invoked = 1
    /\ git.outcome \in {"commit_failed", "push_failed", "exception"}
    /\ calls # <<>>
    /\ files[calls[1].file_path] = calls[1].post

\* the merger calls of the current process are over
MergesDone == pc \in {"commit", "committed"} \/ (pc = "exited" /\ version # <<>>)

\* the call run makes for the changes of one kind, when there are any
ExpectedCalls(section_type, subdir, changes) ==
    IF changes = <<>> THEN <<>>
    ELSE <<[section_type |-> section_type, changes |-> changes,
            file_path |-> <<subdir, version \o <<".", "m", "d">>>>]>>

\* the calls run is to make under the configured layout
ExpectedRunCalls ==
    IF self.single_file
    THEN ExpectedCalls(IF self.unified_format = "internal" THEN "internal" ELSE "client",
                       "", client_changes \o internal_changes)
         \* the single file is named by single_filename, not by the version
    ELSE IF self.unified_changelog
    THEN ExpectedCalls(IF self.unified_format = "internal" THEN "internal" ELSE "client",
                       "", client_changes \o internal_changes)
    ELSE ExpectedCalls("client", self.client_subdir, client_changes)
         \o ExpectedCalls("internal", self.internal_subdir, internal_changes)

\* the calls made are the expected ones: kind, changes and, but for the
\* single file, destination
CallsAsExpected ==
    /\ Len(calls) = Len(ExpectedRunCalls)
    /\ \A k \in 1..Len(calls) :
          /\ calls[k].section_type = ExpectedRunCalls[k].section_type
          /\ calls[k].changes = ExpectedRunCalls[k].changes
          /\ calls[k].raw_version = version
          /\ calls[k].file_path = IF self.single_file THEN <<"", single_filename>>
                                  ELSE ExpectedRunCalls[k].file_path

NoFileTwice ==
    \A j, k \in 1..Len(calls) : j # k => calls[j].file_path # calls[k].file_path

\* C11 as stated: in one run no file is merged twice; once the merger calls
\* are over they are, in the separate layout, one for the client items iff
\* there are any and one for the internal items iff there are any, in that
\* order; in the unified and single layouts one call with the client items
\* followed by the internal items iff there is any item.  The list handed
\* to commit_changes is the list of the paths these calls returned.
C11_EachFileMergedOnce ==
    /\ NoFileTwice
    /\ MergesDone =>
          /\ CallsAsExpected
          /\ updated_files = [k \in 1..Len(calls) |-> calls[k].file_path]
    /\ git.invoked = 1 => git.files = updated_files

(***************************************************************************)
(* SpecVersion: extract_target_version applied to descriptions built from  *)
(* a heading, white space, an opening mark, a token and a closing mark      *)
(***************************************************************************)
\* tokens of the form [vV]?\d+\.\d+\.\d+(?:-[a-zA-Z0-9.]+)?
VersionTokens ==
    {<<"v", "1", ".", "2", ".", "3">>,
     <<"1", ".", "2", ".", "3">>,
     <<"V", "1", ".", "2", ".", "3">>,
     <<"1", ".", "2", ".", "3", "-", "r", "c", ".", "1">>,
     <<"v", "1", "0", ".", "0", ".", "7">>}

\* tokens that are not of that form
OtherTokens == {<<"v", "1", ".", "2">>, <<"n", "e", "x", "t">>, <<>>}

VersionInputs ==
    [lead : {<<>>, <<"x", NL>>},
     heading : {TargetVersionHeading, <<"#", "#", " ", "T", "a", "r", "g", "e", "t">>},
     space : {<<NL>>, <<" ">>, <<NL, NL>>, <<>>},
     mark : {<<<<>>, <<>>>>, <<<<"[">>, <<"]">>>>, <<<<Backtick>>, <<Backtick>>>>},
     token : VersionTokens \cup OtherTokens]

VersionText(in) ==
    in.lead \o in.heading \o in.space \o in.mark[1] \o in.token \o in.mark[2] \o <<NL>>

\* what the variables no operation of a specification touches hold
Untouched ==
    /\ self = BaseConfig
    /\ files = <<>> /\ dirs = {}
    /\ pr_title = None
    /\ related_issues = <<>> /\ updated_files = <<>>
    /\ exit_status = "running" /\ git = NoGit
    /\ calls = <<>>

VersionInit ==
    /\ input \in VersionInputs
    /\ description = Str(VersionText(input))
    /\ pc = "call"
    /\ version = <<>> /\ client_changes = <<>> /\ internal_changes = <<>>
    /\ Untouched

ExtractTargetVersion ==
    /\ pc = "call"
    /\ version' = extract_target_version(description.str)
    /\ pc' = "returned"
    /\ UNCHANGED <<self, files, description, pr_title, client_changes,
                   internal_changes, related_issues, updated_files, exit_status,
                   git, dirs, calls, input>>

VersionNext == ExtractTargetVersion

SpecVersion == VersionInit /\ [][VersionNext]_vars

\* a version token follows a "## Target Version" heading in the input
TokenFollows ==
    /\ input.heading = TargetVersionHeading
    /\ input.space # <<>>
    /\ input.token \in VersionTokens

HasVPrefixAnyCase(token) == Len(token) >= 1 /\ LowerChar(token[1]) = "v"

\* C9: extract_target_version returns "notarget" exactly when no version
\* token follows the heading, and otherwise the token, with a "v" put in
\* front if and only if the token has no v prefix in either letter case.
C9_VPrefixEnforced ==
    pc = "returned" =>
        IF ~TokenFollows THEN version = notarget
        ELSE /\ version # notarget
             /\ version = IF HasVPrefixAnyCase(input.token) THEN input.token
                          ELSE <<"v">> \o input.token

(***************************************************************************)
(* SpecSection: extract_changelog_section applied to descriptions built    *)
(* from a section heading and two lines                                    *)
(***************************************************************************)
Added == <<"A", "d", "d", "e", "d">>

Fixed == <<"F", "i", "x", "e", "d">>

\* the lines of a section, each with the items the line is to produce
SectionLines ==
    {[line |-> <<"-", " ", "*", "*", "A", "d", "d", "e", "d", "*", "*", ":", " ", "n", "e", "w">>,
      items |-> <<Item(Added, <<"n", "e", "w">>)>>],
     [line |-> <<"-", " ", "*", "*", "F", "i", "x", "e", "d", "*", "*", ":", " ", "[", "o", "l", "d", "]">>,
      items |-> <<Item(Fixed, <<"o", "l", "d">>)>>],
     [line |-> <<"-", " ", "*", "*", "A", "d", "d", "e", "d", "*", "*", ":", " ", "[", "n", "o", "n", "e", "]">>,
      items |-> <<>>],
     [line |-> <<"-", " ", "*", "*", "F", "i", "x", "e", "d", "*", "*", ":", " ", "[", "N", "o", "n", "e", "]">>,
      items |-> <<>>],
     [line |-> <<"-", " ", "*", "*", "A", "d", "d", "e", "d", "*", "*", ":", " ">>,
      items |-> <<>>],
     [line |-> <<>>,
      items |-> <<>>],
     [line |-> <<"<", "!", "-", "-", " ", "*", "*", "A", "d", "d", "e", "d", "*", "*", ":", " ", "h", "i", "d", "d", "e", "n", " ", "-", "-", ">">>,
      items |-> <<>>],
     [line |-> <<"S", "o", "m", "e", " ", "p", "r", "o", "s", "e", ":", " ", "t", "e", "x", "t">>,
      items |-> <<>>]}

SectionInputs ==
    [section_name : {ClientSectionName, InternalSectionName},
     heading : {ClientSectionName, InternalSectionName},
     first : SectionLines,
     second : SectionLines]

SectionText(in) ==
    H3 \o in.heading \o <<NL>> \o in.first.line \o <<NL>> \o in.second.line \o <<NL>>

SectionInit ==
    /\ input \in SectionInputs
    /\ description = Str(SectionText(input))
    /\ pc = "call"
    /\ version = <<>> /\ client_changes = <<>> /\ internal_changes = <<>>
    /\ Untouched

\* the result is kept in the variable run keeps it in
ExtractChangelogSection ==
    /\ pc = "call"
    /\ IF input.section_name = ClientSectionName
       THEN /\ client_changes' = extract_changelog_section(description.str, input.section_name)
            /\ UNCHANGED internal_changes
       ELSE /\ internal_changes' = extract_changelog_section(description.str, input.section_name)
            /\ UNCHANGED client_changes
    /\ pc' = "returned"
    /\ UNCHANGED <<self, files, description, pr_title, version, related_issues,
                   updated_files, exit_status, git, dirs, calls, input>>

SectionNext == ExtractChangelogSection

SpecSection == SectionInit /\ [][SectionNext]_vars

SectionResult ==
    IF input.section_name = ClientSectionName THEN client_changes ELSE internal_changes

\* C10: extract_changelog_section returns, in source order, one item per
\* bullet line "**Cat**: text" or "**Cat**: [text]" of the named section
\* (with the brackets stripped), and none for a bullet whose text is empty
\* or "[none]" in any letter case, for a line that is no bullet, a blank
\* line or an HTML comment line; it returns no item when the heading is
\* absent.
C10_ItemsOfSection ==
    pc = "returned" =>
        SectionResult = IF input.heading = input.section_name
                        THEN input.first.items \o input.second.items
                        ELSE <<>>

====
